---- MODULE Spec2Model ----
(***************************************************************************)
(* State-machine model of the MXU presentation layer:                      *)
(*   OnboardingOverlay  (src/unnamed/part_001)                             *)
(*   ContextMenu, useContextMenu, TaskItem                                 *)
(*                      (src/src/components/ContextMenu.tsx)               *)
(*   TaskList           (src/unnamed/part_000)                             *)
(* Every component is modelled by its own group of variables and its own   *)
(* specification; a specification keeps the other groups at rest.          *)
(* One action is one event handler (or timer callback) run to completion,  *)
(* together with the effects React runs after the resulting render.        *)
(***************************************************************************)
EXTENDS Integers, Sequences, FiniteSets, TLC

\* ------------------------------------------------------------------ bounds
MaxInstances == 2
MaxExitTimers == 2
MaxItems == 2
MaxClick == 1
MaxViewport == 20
MaxPanel == 5
MaxTasks == 3
MaxLen == 2
MaxLogs == 2
MaxOptions == 1
MaxListTasks == 2

\* ------------------------------------------------------------ shared state
VARIABLES
  lastEvent,   \* the event whose handler ran last: [name, arg]
  stepCmds     \* the store commands and callbacks that handler called, in order

\* ------------------------------------------------------- OnboardingOverlay
VARIABLES
  obMounted,          \* the component is mounted
  obCompleted,        \* store: onboardingCompleted
  obCompletedAtMount, \* history: onboardingCompleted when the component mounted
  obVisible,          \* useState isVisible
  obExiting,          \* useState isExiting
  obDisplayTimer,     \* the 500ms timer kept in timeoutRef is pending
  obExitTimers,       \* number of pending 200ms timers set by handleDismiss
  activeInstanceId,   \* store: activeInstanceId (NoInstance when null)
  connStatus,         \* store: instanceConnectionStatus
  resLoaded           \* store: instanceResourceLoaded

\* ------------------------------------------- useContextMenu and ContextMenu
VARIABLES
  menuOpen,       \* ContextMenuState.isOpen; the ContextMenu is mounted iff true
  menuPos,        \* ContextMenuState.position
  menuItems,      \* ContextMenuState.items
  menuTimer,      \* the zero-delay timer of the dismissal effect is pending
  menuListeners   \* handleClickOutside and handleEscape are on the document

\* --------------------------------------------- ContextMenu position effect
VARIABLES
  winW, winH,         \* window.innerWidth, window.innerHeight
  posShown,           \* a ContextMenu is mounted
  posReq,             \* its position prop (the requested anchor)
  rectW, rectH,       \* getBoundingClientRect() of the panel: width, height
  styleLeft, styleTop \* menu.style.left, menu.style.top

\* ---------------------------------------------------------------- TaskList
VARIABLES
  tlInstance,   \* id of getActiveInstance() (NoInstance when there is none)
  tlTasks,      \* instance.selectedTasks: the task ids, in order
  dragActive    \* id of the sortable row being dragged (NoTask when none)

\* ---------------------------------------------------------------- TaskItem
VARIABLES
  tiInstanceId,   \* prop instanceId
  tiTaskId,       \* prop task.id
  tiCustomName,   \* store: task.customName (empty when there is none)
  tiEditing,      \* useState isEditing
  tiEditName,     \* useState editName
  tiNameAtStart   \* history: task.customName when editing started

\* ------------------------------------------- TaskItem: the row as rendered
VARIABLES
  tiDef,        \* taskDef: NoTaskDef, NoOptionField or the number of option keys
  tiExpanded,   \* prop task.expanded
  tiRender      \* the row's last render: "null", "full", or "error" once React threw

\* -------------------------------------------------- TaskList: the list menu
VARIABLES
  taskEnabled,      \* store: enabled of each selected task
  taskExpanded,     \* store: expanded of each selected task
  showAddTaskPanel  \* store: showAddTaskPanel

\* --------------------------------------------------------------- LogsPanel
VARIABLES
  logCount      \* useState logs: the number of entries

\* ------------------------------ the menus of TaskList and its TaskItem rows
VARIABLES
  ownerMenus    \* per owner: isOpen, timer pending, listeners on the document

sharedVars == <<lastEvent, stepCmds>>
obVars == <<obMounted, obCompleted, obCompletedAtMount, obVisible, obExiting,
            obDisplayTimer, obExitTimers, activeInstanceId, connStatus, resLoaded>>
menuVars == <<menuOpen, menuPos, menuItems, menuTimer, menuListeners>>
posVars == <<winW, winH, posShown, posReq, rectW, rectH, styleLeft, styleTop>>
dragVars == <<tlInstance, tlTasks, dragActive>>
itemVars == <<tiInstanceId, tiTaskId, tiCustomName, tiEditing, tiEditName, tiNameAtStart>>
rowVars == <<tiDef, tiExpanded, tiRender>>
listVars == <<taskEnabled, taskExpanded, showAddTaskPanel>>
logVars == <<logCount>>
multiVars == <<ownerMenus>>
vars == <<sharedVars, obVars, menuVars, posVars, dragVars, itemVars, rowVars, listVars, logVars,
          multiVars>>

NoInstance == 0
InstanceIds == 1..MaxInstances
ConnStatuses == {"undefined", "Disconnected", "Connected"}

Event(name, arg) == [name |-> name, arg |-> arg]
NoEvent == Event("none", 0)
SharedInit == lastEvent = NoEvent /\ stepCmds = <<>>

\* A call of a store command or of a callback: operation, instance id, task
\* id, two numeric arguments and a text argument (a sequence of characters).
Cmd(op, inst, task, a, b, s) ==
  [op |-> op, inst |-> inst, task |-> task, a |-> a, b |-> b, s |-> s]

\* setOnboardingCompleted(true)
SetOnboardingCompletedCmd == Cmd("setOnboardingCompleted", NoInstance, 0, 1, 0, <<>>)

\* ------------------------------------------------- OnboardingOverlay: code

\* Display-delay effect: the 500ms timer is set unless onboardingCompleted.
DisplayEffectAlways(completed) == TRUE
DisplayEffectSchedules(completed) == ~completed

\* Connection watcher effect: the condition under which it calls handleDismiss.
WatcherIgnoresVisible(visible, completed, active, conn, loaded) ==
  /\ ~completed
  /\ active # NoInstance
  /\ conn[active] = "Connected"
  /\ loaded[active]
WatcherIgnoresResource(visible, completed, active, conn, loaded) ==
  /\ visible /\ ~completed
  /\ active # NoInstance
  /\ conn[active] = "Connected"
WatcherDismisses(visible, completed, active, conn, loaded) ==
  /\ visible /\ ~completed
  /\ active # NoInstance
  /\ conn[active] = "Connected"
  /\ loaded[active]

\* handleDismiss: setIsExiting(true) and a new 200ms timer, kept nowhere.
HandleDismissDebounced ==
  /\ obExiting' = TRUE
  /\ obExitTimers' = 1
HandleDismissNoTimer ==
  /\ obExiting' = TRUE
  /\ obExitTimers' = obExitTimers
HandleDismiss ==
  /\ obExiting' = TRUE
  /\ obExitTimers' = obExitTimers + 1

ObInit ==
  /\ obMounted = TRUE
  /\ obCompleted \in BOOLEAN
  /\ obCompletedAtMount = obCompleted
  /\ obVisible = FALSE
  /\ obExiting = FALSE
  /\ obDisplayTimer = DisplayEffectSchedules(obCompleted)
  /\ obExitTimers = 0
  /\ activeInstanceId \in {NoInstance} \cup InstanceIds
  /\ connStatus \in [InstanceIds -> ConnStatuses]
  /\ resLoaded \in [InstanceIds -> BOOLEAN]

\* The overlay at rest: what the other specifications keep it at.
ObOff ==
  /\ obMounted = FALSE
  /\ obCompleted = TRUE
  /\ obCompletedAtMount = TRUE
  /\ obVisible = FALSE
  /\ obExiting = FALSE
  /\ obDisplayTimer = FALSE
  /\ obExitTimers = 0
  /\ activeInstanceId = NoInstance
  /\ connStatus = [i \in InstanceIds |-> "undefined"]
  /\ resLoaded = [i \in InstanceIds |-> FALSE]

nonObVars == <<menuVars, posVars, dragVars, itemVars, rowVars, listVars, logVars, multiVars>>

\* The 500ms timer fires: setIsVisible(true); the watcher effect then runs on
\* the new render.
ObDisplayTimerFire ==
  /\ obDisplayTimer
  /\ obDisplayTimer' = FALSE
  /\ obVisible' = TRUE
  /\ IF WatcherDismisses(TRUE, obCompleted, activeInstanceId, connStatus, resLoaded)
       THEN HandleDismiss
       ELSE UNCHANGED <<obExiting, obExitTimers>>
  /\ lastEvent' = Event("displayTimer", 0)
  /\ stepCmds' = <<>>
  /\ UNCHANGED <<obMounted, obCompleted, obCompletedAtMount,
                 activeInstanceId, connStatus, resLoaded>>
  /\ UNCHANGED nonObVars

\* The store replaces activeInstanceId, instanceConnectionStatus or
\* instanceResourceLoaded (arg 1, 2, 3); a mounted overlay re-renders and the
\* watcher effect runs again because one of its dependencies is a new value.
ObStoreChange ==
  /\ \/ \E a \in {NoInstance} \cup InstanceIds :
          /\ activeInstanceId' = a
          /\ UNCHANGED <<connStatus, resLoaded>>
          /\ lastEvent' = Event("storeChange", 1)
     \/ \E i \in InstanceIds, s \in ConnStatuses :
          /\ connStatus' = [connStatus EXCEPT ![i] = s]
          /\ UNCHANGED <<activeInstanceId, resLoaded>>
          /\ lastEvent' = Event("storeChange", 2)
     \/ \E i \in InstanceIds, b \in BOOLEAN :
          /\ resLoaded' = [resLoaded EXCEPT ![i] = b]
          /\ UNCHANGED <<activeInstanceId, connStatus>>
          /\ lastEvent' = Event("storeChange", 3)
  /\ IF obMounted /\ WatcherDismisses(obVisible, obCompleted, activeInstanceId',
                                      connStatus', resLoaded')
       THEN obExitTimers < MaxExitTimers /\ HandleDismiss
       ELSE UNCHANGED <<obExiting, obExitTimers>>
  /\ stepCmds' = <<>>
  /\ UNCHANGED <<obMounted, obCompleted, obCompletedAtMount, obVisible, obDisplayTimer>>
  /\ UNCHANGED nonObVars

\* A click on one of the three backdrop rectangles (arg 1..3) or on the
\* acknowledgement button (arg 0); they are rendered only while isVisible.
ObManualDismiss ==
  /\ obMounted /\ obVisible
  /\ obExitTimers < MaxExitTimers
  /\ HandleDismiss
  /\ \E k \in 0..3 : lastEvent' = Event("dismissClick", k)
  /\ stepCmds' = <<>>
  /\ UNCHANGED <<obMounted, obCompleted, obCompletedAtMount, obVisible, obDisplayTimer,
                 activeInstanceId, connStatus, resLoaded>>
  /\ UNCHANGED nonObVars

\* One 200ms timer fires: setIsVisible(false); setOnboardingCompleted(true).
\* A state update of an unmounted component is dropped; the store call is not.
\* The display-delay effect then re-runs (its dependency changed): its cleanup
\* clears timeoutRef and it returns early.
ObExitTimerFire ==
  /\ obExitTimers > 0
  /\ obExitTimers' = obExitTimers - 1
  /\ obVisible' = FALSE
  /\ obCompleted' = TRUE
  /\ obDisplayTimer' = FALSE
  /\ lastEvent' = Event("exitTimer", 0)
  /\ stepCmds' = <<SetOnboardingCompletedCmd>>
  /\ UNCHANGED <<obMounted, obCompletedAtMount, obExiting,
                 activeInstanceId, connStatus, resLoaded>>
  /\ UNCHANGED nonObVars

\* Unmount: the display-delay effect's cleanup clears timeoutRef; the component
\* state is discarded.  The 200ms timers are not kept anywhere and stay set.
ObUnmount ==
  /\ obMounted
  /\ obMounted' = FALSE
  /\ obDisplayTimer' = FALSE
  /\ obVisible' = FALSE
  /\ obExiting' = FALSE
  /\ lastEvent' = Event("unmount", 0)
  /\ stepCmds' = <<>>
  /\ UNCHANGED <<obCompleted, obCompletedAtMount, obExitTimers,
                 activeInstanceId, connStatus, resLoaded>>
  /\ UNCHANGED nonObVars

\* ------------------------------------- useContextMenu and ContextMenu: code

\* MenuItem: divider, disabled, children (absent, an empty array, a non-empty
\* array) and whether onClick is given.  A divider renders a plain <div>, its
\* other fields are never read.
ChildrenKinds == <<"none", "empty", "some">>
DividerItem == [divider |-> TRUE, disabled |-> FALSE, children |-> "none", onClick |-> FALSE]
NumItemKinds == 1 + 2 * 3 * 2
ItemOfCode(k) ==
  IF k = 0 THEN DividerItem
  ELSE [divider |-> FALSE,
        disabled |-> ((k - 1) \div 6) = 1,
        children |-> ChildrenKinds[(((k - 1) \div 2) % 3) + 1],
        onClick |-> ((k - 1) % 2) = 1]
MenuItemKinds == {ItemOfCode(k) : k \in 0..(NumItemKinds - 1)}
\* The item lists an owner passes to show: every kind of item at every index.
MenuChoices ==
  {[i \in 1..MaxItems |-> ItemOfCode((k + i) % NumItemKinds)] : k \in 0..(NumItemKinds - 1)}
\* Cursor positions (clientX, clientY) of a contextmenu event.
ClickPositions == [x : 0..MaxClick, y : 0..MaxClick]
\* The cursor position as the argument of a recorded event.
CursorCode(pos) == pos.x * (MaxClick + 1) + pos.y

OnClickCall(i) == Cmd("item.onClick", NoInstance, i, 0, 0, <<>>)
OnCloseCall == Cmd("onClose", NoInstance, 0, 0, 0, <<>>)

\* useContextMenuState: the initial state.
MenuInit ==
  /\ menuOpen = FALSE
  /\ menuPos = [x |-> 0, y |-> 0]
  /\ menuItems = <<>>
  /\ menuTimer = FALSE
  /\ menuListeners = FALSE

\* ContextMenu mounts: the dismissal effect sets the zero-delay timer.
MenuMountEffectEager ==
  /\ menuTimer' = FALSE
  /\ menuListeners' = TRUE
MenuMountEffect ==
  /\ menuTimer' = TRUE
  /\ menuListeners' = FALSE

\* useContextMenu.hide; the ContextMenu unmounts and the dismissal effect's
\* cleanup clears the timer and removes both listeners.
HideStateResets ==
  /\ menuOpen' = FALSE
  /\ menuPos' = [x |-> 0, y |-> 0]
  /\ menuItems' = <<>>
HideState ==
  /\ menuOpen' = FALSE
  /\ UNCHANGED <<menuPos, menuItems>>
MenuCleanupKeepsTimer ==
  /\ menuTimer' = menuTimer
  /\ menuListeners' = FALSE
MenuCleanup ==
  /\ menuTimer' = FALSE
  /\ menuListeners' = FALSE
Hide == HideState /\ MenuCleanup

\* MenuItemComponent.handleClick: the calls it makes, in order.
HandleClickIgnoresDisabled(item, i) ==
  IF item.children # "none" THEN <<>>
  ELSE (IF item.onClick THEN <<OnClickCall(i)>> ELSE <<>>) \o <<OnCloseCall>>
HandleClickCalls(item, i) ==
  IF item.disabled \/ item.children # "none" THEN <<>>
  ELSE (IF item.onClick THEN <<OnClickCall(i)>> ELSE <<>>) \o <<OnCloseCall>>

\* handleClickOutside calls onClose iff the target is not inside menuRef.
ClickOutsideAlways(inside) == TRUE
ClickOutsideCloses(inside) == ~inside

\* handleEscape calls onClose iff the key is Escape.
Keys == {"Escape", "Enter", "a"}
EscapeCloses(key) == key = "Escape"

\* ----------------------------------------------------------- TaskList: code
NoTask == 0
TaskIds == 1..MaxTasks

\* Lists of selected tasks: ids are unique within a list.
TaskLists ==
  {t \in UNION {[1..n -> TaskIds] : n \in 0..MaxTasks} :
     \A i, j \in DOMAIN t : t[i] = t[j] => i = j}
IdsOf(tasks) == {tasks[i] : i \in DOMAIN tasks}

\* Array.prototype.findIndex((t) => t.id === id): 0-based, -1 when absent.
FindIndex(tasks, id) ==
  IF id \in IdsOf(tasks)
    THEN (CHOOSE i \in DOMAIN tasks : tasks[i] = id /\ \A j \in 1..(i - 1) : tasks[j] # id) - 1
    ELSE -1

ReorderCmd(inst, from, to) == Cmd("reorderTasks", inst, NoTask, from, to, <<>>)

\* handleDragEnd: the store commands it issues for active.id and over?.id
\* (NoTask for a null over).
HandleDragEndSwapped(inst, tasks, active, over) ==
  IF over # NoTask /\ active # over /\ inst # NoInstance
    THEN <<ReorderCmd(inst, FindIndex(tasks, over), FindIndex(tasks, active))>>
    ELSE <<>>
HandleDragEnd(inst, tasks, active, over) ==
  IF over # NoTask /\ active # over /\ inst # NoInstance
    THEN <<ReorderCmd(inst, FindIndex(tasks, active), FindIndex(tasks, over))>>
    ELSE <<>>

\* The DndContext is rendered only for an instance with at least one task.
DndRendered(inst, tasks) == inst # NoInstance /\ Len(tasks) > 0

DragInit ==
  /\ tlInstance \in {NoInstance} \cup InstanceIds
  /\ tlTasks \in TaskLists
  /\ tlInstance = NoInstance => tlTasks = <<>>
  /\ dragActive = NoTask
DragOff ==
  /\ tlInstance = NoInstance
  /\ tlTasks = <<>>
  /\ dragActive = NoTask

\* ----------------------------------------------------------- TaskItem: code
\* Text is a sequence of characters; two of them are white space.
Chars == {" ", "\t", "a"}
WhiteSpace == {" ", "\t"}
Texts == UNION {[1..n -> Chars] : n \in 0..MaxLen}

\* String.prototype.trim
RECURSIVE TrimStart(_)
TrimStart(s) ==
  IF s # <<>> /\ Head(s) \in WhiteSpace THEN TrimStart(Tail(s)) ELSE s
RECURSIVE TrimEnd(_)
TrimEnd(s) ==
  IF s # <<>> /\ s[Len(s)] \in WhiteSpace THEN TrimEnd(SubSeq(s, 1, Len(s) - 1)) ELSE s
Trim(s) == TrimEnd(TrimStart(s))

RenameCmd(inst, task, name) == Cmd("renameTask", inst, task, 0, 0, name)

\* handleSaveEdit: the store commands it issues.
SaveEditUntrimmed(inst, task, buf) == <<RenameCmd(inst, task, buf)>>
SaveEditCmds(inst, task, buf) == <<RenameCmd(inst, task, Trim(buf))>>

\* handleCancelEdit: the store commands it issues.
CancelEditCommits(inst, task, buf) == <<RenameCmd(inst, task, Trim(buf))>>
CancelEditCmds(inst, task, buf) == <<>>

\* The store applies renameTask to the row's task: the new name becomes its
\* custom name, the empty name clears it.
StoreCustomName(cmds, task, name) ==
  IF cmds # <<>> /\ cmds[Len(cmds)].op = "renameTask" /\ cmds[Len(cmds)].task = task
    THEN cmds[Len(cmds)].s
    ELSE name

ItemInit ==
  /\ tiInstanceId \in InstanceIds
  /\ tiTaskId \in TaskIds
  /\ tiCustomName \in {Trim(s) : s \in Texts}
  /\ tiEditing = FALSE
  /\ tiEditName = <<>>
  /\ tiNameAtStart = <<>>
ItemOff ==
  /\ tiInstanceId = 1
  /\ tiTaskId = 1
  /\ tiCustomName = <<>>
  /\ tiEditing = FALSE
  /\ tiEditName = <<>>
  /\ tiNameAtStart = <<>>

\* --------------------------------------- ContextMenu position effect: code
Margin == 8
ViewportSizes == {MaxViewport - 2, MaxViewport}
PanelSizes == 1..MaxPanel
Max(a, b) == IF a >= b THEN a ELSE b

\* One axis of the position effect: shift back when the panel would cross the
\* far edge of the viewport, then keep the origin at Margin or more.
AdjustAxisNoShift(p, size, view) == Max(Margin, p)
AdjustAxisNoMargin(p, size, view) ==
  Max(Margin, IF p + size > view THEN view - size ELSE p)
AdjustAxis(p, size, view) ==
  Max(Margin, IF p + size > view THEN view - size - Margin ELSE p)

\* No menu on screen; the panel's style is the position prop as rendered.
PosClosed ==
  /\ posShown = FALSE
  /\ posReq = [x |-> 0, y |-> 0]
  /\ rectW = 0 /\ rectH = 0
  /\ styleLeft = 0 /\ styleTop = 0
PosInit ==
  /\ winW \in ViewportSizes
  /\ winH \in ViewportSizes
  /\ PosClosed
PosOff ==
  /\ winW = MaxViewport
  /\ winH = MaxViewport
  /\ PosClosed

\* The row, the list menu and the logs panel at rest, for the specifications
\* of the other components.
NoTaskDef == -2
NoOptionField == -1
RowOff ==
  /\ tiDef = 0
  /\ tiExpanded = FALSE
  /\ tiRender = "full"
ListOff ==
  /\ taskEnabled = [id \in TaskIds |-> FALSE]
  /\ taskExpanded = [id \in TaskIds |-> FALSE]
  /\ showAddTaskPanel = FALSE
LogOff == logCount = 0

\* The owners of a menu: TaskList (0) and its rows (the task ids).
ListOwner == 0
Owners == {ListOwner} \cup (1..MaxListTasks)
\* A useContextMenu state that is closed, its ContextMenu not mounted.
NoMenu == [open |-> FALSE, timer |-> FALSE, listeners |-> FALSE]
MultiOff == ownerMenus = [o \in Owners |-> NoMenu]

nonMenuVars == <<obVars, posVars, dragVars, itemVars, rowVars, listVars, logVars, multiVars>>

\* A contextmenu event on the owner: useContextMenu.show.  A closed menu
\* mounts the ContextMenu; an open one keeps it mounted (onClose is stable, the
\* dismissal effect does not run again).
MenuShow ==
  /\ \E items \in MenuChoices, pos \in ClickPositions :
       /\ menuItems' = items
       /\ menuPos' = pos
  /\ menuOpen' = TRUE
  /\ IF menuOpen THEN UNCHANGED <<menuTimer, menuListeners>> ELSE MenuMountEffect
  /\ lastEvent' = Event("contextmenu", 0)
  /\ stepCmds' = <<>>
  /\ UNCHANGED nonMenuVars

\* The zero-delay timer runs: both listeners are added to the document.
MenuTimerFire ==
  /\ menuTimer
  /\ menuTimer' = FALSE
  /\ menuListeners' = TRUE
  /\ lastEvent' = Event("menuTimer", 0)
  /\ stepCmds' = <<>>
  /\ UNCHANGED <<menuOpen, menuPos, menuItems>>
  /\ UNCHANGED nonMenuVars

\* A mousedown on the document, inside the panel (arg 1) or not (arg 0).
MenuMouseDown ==
  \E inside \in BOOLEAN :
    /\ inside => menuOpen
    /\ lastEvent' = Event("mousedown", IF inside THEN 1 ELSE 0)
    /\ IF menuListeners /\ menuOpen /\ ClickOutsideCloses(inside)
         THEN Hide /\ stepCmds' = <<OnCloseCall>>
         ELSE UNCHANGED menuVars /\ stepCmds' = <<>>
    /\ UNCHANGED nonMenuVars

\* A keydown on the document (arg 1 for Escape, 0 for another key).
MenuKeyDown ==
  \E key \in Keys :
    /\ lastEvent' = Event("keydown", IF key = "Escape" THEN 1 ELSE 0)
    /\ IF menuListeners /\ EscapeCloses(key)
         THEN Hide /\ stepCmds' = <<OnCloseCall>>
         ELSE UNCHANGED menuVars /\ stepCmds' = <<>>
    /\ UNCHANGED nonMenuVars

\* A click on the i-th entry of the open menu.  A divider has no handler.
MenuItemClick ==
  \E i \in 1..Len(menuItems) :
    /\ menuOpen
    /\ lastEvent' = Event("itemClick", i)
    /\ stepCmds' = IF menuItems[i].divider THEN <<>> ELSE HandleClickCalls(menuItems[i], i)
    /\ IF stepCmds' # <<>> /\ stepCmds'[Len(stepCmds')] = OnCloseCall
         THEN Hide
         ELSE UNCHANGED menuVars
    /\ UNCHANGED nonMenuVars

MenuNext ==
  \/ MenuShow
  \/ MenuTimerFire
  \/ MenuMouseDown
  \/ MenuKeyDown
  \/ MenuItemClick

InitMenu == SharedInit /\ ObOff /\ MenuInit /\ PosOff /\ DragOff /\ ItemOff /\ RowOff /\ ListOff /\ LogOff /\ MultiOff

SpecMenu == InitMenu /\ [][MenuNext]_vars

ObNextMounted ==
  \/ ObDisplayTimerFire
  \/ ObStoreChange
  \/ ObManualDismiss
  \/ ObExitTimerFire

ObNext ==
  \/ ObDisplayTimerFire
  \/ ObStoreChange
  \/ ObManualDismiss
  \/ ObExitTimerFire
  \/ ObUnmount

InitOnboarding == SharedInit /\ ObInit /\ MenuInit /\ PosOff /\ DragOff /\ ItemOff /\ RowOff /\ ListOff /\ LogOff /\ MultiOff

SpecOnboarding == InitOnboarding /\ [][ObNext]_vars

\* The component stays mounted and the browser runs every timer that is set.
SpecOnboardingLive ==
  /\ InitOnboarding
  /\ [][ObNextMounted]_vars
  /\ WF_vars(ObDisplayTimerFire)
  /\ WF_vars(ObExitTimerFire)

\* ------------------------------------ ContextMenu position effect: actions
nonPosVars == <<obVars, menuVars, dragVars, itemVars, rowVars, listVars, logVars, multiVars>>

\* A menu is rendered at the cursor position (style left/top = position) and
\* the position effect measures the panel and moves it.
PosShow ==
  /\ ~posShown
  /\ \E x \in 0..(winW - 1), y \in 0..(winH - 1), w \in PanelSizes, h \in PanelSizes :
       /\ posReq' = [x |-> x, y |-> y]
       /\ rectW' = w
       /\ rectH' = h
       /\ styleLeft' = AdjustAxis(x, w, winW)
       /\ styleTop' = AdjustAxis(y, h, winH)
  /\ posShown' = TRUE
  /\ lastEvent' = Event("contextmenu", 0)
  /\ stepCmds' = <<>>
  /\ UNCHANGED <<winW, winH>>
  /\ UNCHANGED nonPosVars

\* The menu unmounts.
PosHide ==
  /\ posShown
  /\ posShown' = FALSE
  /\ posReq' = [x |-> 0, y |-> 0]
  /\ rectW' = 0 /\ rectH' = 0
  /\ styleLeft' = 0 /\ styleTop' = 0
  /\ lastEvent' = Event("menuUnmount", 0)
  /\ stepCmds' = <<>>
  /\ UNCHANGED <<winW, winH>>
  /\ UNCHANGED nonPosVars

PosNext ==
  \/ PosShow
  \/ PosHide

InitPosition == SharedInit /\ ObOff /\ MenuInit /\ PosInit /\ DragOff /\ ItemOff /\ RowOff /\ ListOff /\ LogOff /\ MultiOff

SpecPosition == InitPosition /\ [][PosNext]_vars

\* -------------------------------------------------------- TaskList: actions
nonDragVars == <<obVars, menuVars, posVars, itemVars, rowVars, listVars, logVars, multiVars>>

\* A drag of one of the rendered rows starts (pointer moved 8px, or keyboard).
TlDragStart ==
  /\ DndRendered(tlInstance, tlTasks)
  /\ dragActive = NoTask
  /\ \E id \in IdsOf(tlTasks) :
       /\ dragActive' = id
       /\ lastEvent' = Event("dragStart", id)
  /\ stepCmds' = <<>>
  /\ UNCHANGED <<tlInstance, tlTasks>>
  /\ UNCHANGED nonDragVars

\* The store replaces the active instance or its task list (a reorder being
\* applied, a task added or removed, another instance activated); TaskList
\* renders again.  Without a DndContext the drag is gone.
TlStoreChange ==
  /\ \E inst \in {NoInstance} \cup InstanceIds, tasks \in TaskLists :
       /\ inst = NoInstance => tasks = <<>>
       /\ <<inst, tasks>> # <<tlInstance, tlTasks>>
       /\ tlInstance' = inst
       /\ tlTasks' = tasks
       /\ dragActive' = IF DndRendered(inst, tasks) THEN dragActive ELSE NoTask
  /\ lastEvent' = Event("storeChange", 0)
  /\ stepCmds' = <<>>
  /\ UNCHANGED nonDragVars

\* The drag ends over one of the rendered rows, or over none (arg NoTask).
TlDragEnd ==
  /\ DndRendered(tlInstance, tlTasks)
  /\ dragActive # NoTask
  /\ \E over \in {NoTask} \cup IdsOf(tlTasks) :
       /\ stepCmds' = HandleDragEnd(tlInstance, tlTasks, dragActive, over)
       /\ lastEvent' = Event("dragEnd", over)
  /\ dragActive' = NoTask
  /\ UNCHANGED <<tlInstance, tlTasks>>
  /\ UNCHANGED nonDragVars

\* The drag is cancelled (Escape): the DndContext is given no onDragCancel.
TlDragCancel ==
  /\ dragActive # NoTask
  /\ dragActive' = NoTask
  /\ lastEvent' = Event("dragCancel", 0)
  /\ stepCmds' = <<>>
  /\ UNCHANGED <<tlInstance, tlTasks>>
  /\ UNCHANGED nonDragVars

DragNext ==
  \/ TlDragStart
  \/ TlStoreChange
  \/ TlDragEnd
  \/ TlDragCancel

InitDrag == SharedInit /\ ObOff /\ MenuInit /\ PosOff /\ DragInit /\ ItemOff /\ RowOff /\ ListOff /\ LogOff /\ MultiOff

SpecDrag == InitDrag /\ [][DragNext]_vars

\* -------------------------------------------------------- TaskItem: actions
nonItemVars == <<obVars, menuVars, posVars, dragVars, rowVars, listVars, logVars, multiVars>>

\* handleDoubleClick on the name area, which is rendered only when viewing.
TiDoubleClick ==
  /\ tiRender = "full"
  /\ ~tiEditing
  /\ tiEditName' = tiCustomName
  /\ tiEditing' = TRUE
  /\ tiNameAtStart' = tiCustomName
  /\ lastEvent' = Event("nameDoubleClick", 0)
  /\ stepCmds' = <<>>
  /\ UNCHANGED <<tiInstanceId, tiTaskId, tiCustomName>>
  /\ UNCHANGED nonItemVars

\* onChange of the edit input: a character typed at the end (arg 1) or the
\* last character deleted (arg 0).
TiChange ==
  /\ tiRender = "full"
  /\ tiEditing
  /\ \/ \E c \in Chars :
          /\ Len(tiEditName) < MaxLen
          /\ tiEditName' = Append(tiEditName, c)
          /\ lastEvent' = Event("editChange", 1)
     \/ /\ tiEditName # <<>>
        /\ tiEditName' = SubSeq(tiEditName, 1, Len(tiEditName) - 1)
        /\ lastEvent' = Event("editChange", 0)
  /\ stepCmds' = <<>>
  /\ UNCHANGED <<tiInstanceId, tiTaskId, tiCustomName, tiEditing, tiNameAtStart>>
  /\ UNCHANGED nonItemVars

\* handleSaveEdit, reached from Enter (arg 1 of editKeyDown), from onBlur of the
\* input and from onMouseDown of the confirm button.
TiSave ==
  /\ tiRender = "full"
  /\ tiEditing
  /\ lastEvent' \in {Event("editKeyDown", 1), Event("editBlur", 0),
                     Event("confirmMouseDown", 0)}
  /\ stepCmds' = SaveEditCmds(tiInstanceId, tiTaskId, tiEditName)
  /\ tiCustomName' = StoreCustomName(stepCmds', tiTaskId, tiCustomName)
  /\ tiEditing' = FALSE
  /\ UNCHANGED <<tiInstanceId, tiTaskId, tiEditName, tiNameAtStart>>
  /\ UNCHANGED nonItemVars

\* handleCancelEdit, reached from Escape (arg 2 of editKeyDown) and from
\* onMouseDown of the cancel button.
TiCancel ==
  /\ tiRender = "full"
  /\ tiEditing
  /\ lastEvent' \in {Event("editKeyDown", 2), Event("cancelMouseDown", 0)}
  /\ stepCmds' = CancelEditCmds(tiInstanceId, tiTaskId, tiEditName)
  /\ tiCustomName' = StoreCustomName(stepCmds', tiTaskId, tiCustomName)
  /\ tiEditing' = FALSE
  /\ tiEditName' = <<>>
  /\ UNCHANGED <<tiInstanceId, tiTaskId, tiNameAtStart>>
  /\ UNCHANGED nonItemVars

\* handleKeyDown for a key that is neither Enter nor Escape (arg 0).
TiOtherKey ==
  /\ tiRender = "full"
  /\ tiEditing
  /\ lastEvent' = Event("editKeyDown", 0)
  /\ stepCmds' = <<>>
  /\ UNCHANGED itemVars
  /\ UNCHANGED nonItemVars

ItemNext ==
  \/ TiDoubleClick
  \/ TiChange
  \/ TiSave
  \/ TiCancel
  \/ TiOtherKey

InitItem == SharedInit /\ ObOff /\ MenuInit /\ PosOff /\ DragOff /\ ItemInit /\ RowOff /\ ListOff /\ LogOff /\ MultiOff

SpecItem == InitItem /\ [][ItemNext]_vars

\* ---------------------------------------------- menus built by the owners
\* An entry of a menu an owner builds: the MenuItem fields MenuItemComponent
\* reads, the entry's id, and the call its onClick closure makes.
NoCall == Cmd("none", NoInstance, 0, 0, 0, <<>>)
BoundItem(id, disabled, call) ==
  [id |-> id, divider |-> FALSE, disabled |-> disabled, children |-> "none",
   onClick |-> TRUE, call |-> call]
BoundDivider(id) ==
  [id |-> id, divider |-> TRUE, disabled |-> FALSE, children |-> "none",
   onClick |-> FALSE, call |-> NoCall]
\* MenuItemComponent.handleClick on such an entry: item.onClick is the closure.
BoundClickCalls(item, i) ==
  IF item.divider THEN <<>>
  ELSE [k \in DOMAIN HandleClickCalls(item, i) |->
          IF HandleClickCalls(item, i)[k] = OnClickCall(i)
            THEN item.call
            ELSE HandleClickCalls(item, i)[k]]
EntryIds(items) == [k \in DOMAIN items |-> items[k].id]

\* --------------------------------------------------------- LogsPanel: code
\* handleCopyAll writes the n entries it closes over to the clipboard.
CopyAllCall(n) == Cmd("clipboard.writeText", NoInstance, 0, n, 0, <<>>)
\* handleClear: setLogs([]).
ClearCall == Cmd("setLogs", NoInstance, 0, 0, 0, <<>>)
ToggleSidePanelCmd == Cmd("toggleSidePanelExpanded", NoInstance, 0, 0, 0, <<>>)

\* disabled: logs.length === 0, of both header buttons and both menu entries.
LogControlNeverDisabled(n) == FALSE
LogControlDisabled(n) == n = 0

\* The header buttons a click can activate.
LogHeaderControls(n) ==
  {"toggle"} \cup (IF LogControlDisabled(n) THEN {} ELSE {"copy", "clear"})

\* handleContextMenu: the entries it passes to showMenu.
LogMenuItems(n) ==
  << BoundItem("copy", LogControlDisabled(n), CopyAllCall(n)),
     BoundItem("clear", LogControlDisabled(n), ClearCall),
     BoundDivider("divider-1"),
     BoundItem("toggle-panel", FALSE, ToggleSidePanelCmd) >>

LogInit == logCount = 0

nonLogVars == <<obVars, posVars, dragVars, itemVars, rowVars, listVars, multiVars>>

\* An entry arrives.  The panel has no way to add one; the ingestion is left
\* to a collaborator, and its only effect here is one more entry.
LogAppend ==
  /\ logCount < MaxLogs
  /\ logCount' = logCount + 1
  /\ lastEvent' = Event("logAppend", 0)
  /\ stepCmds' = <<>>
  /\ UNCHANGED <<menuVars, nonLogVars>>

\* A click on the header's expand/collapse button.
LogHeaderToggle ==
  /\ "toggle" \in LogHeaderControls(logCount)
  /\ lastEvent' = Event("headerToggle", 0)
  /\ stepCmds' = <<ToggleSidePanelCmd>>
  /\ UNCHANGED <<logVars, menuVars, nonLogVars>>

\* A click on the header's copy-all button: handleCopyAll.
LogHeaderCopy ==
  /\ "copy" \in LogHeaderControls(logCount)
  /\ lastEvent' = Event("headerCopy", 0)
  /\ stepCmds' = <<CopyAllCall(logCount)>>
  /\ UNCHANGED <<logVars, menuVars, nonLogVars>>

\* A click on the header's clear button: handleClear.
LogHeaderClear ==
  /\ "clear" \in LogHeaderControls(logCount)
  /\ lastEvent' = Event("headerClear", 0)
  /\ stepCmds' = <<ClearCall>>
  /\ logCount' = 0
  /\ UNCHANGED <<menuVars, nonLogVars>>

\* A contextmenu event on the log area: handleContextMenu, then show.
LogContextMenu ==
  \E pos \in ClickPositions :
    /\ menuItems' = LogMenuItems(logCount)
    /\ menuPos' = pos
    /\ menuOpen' = TRUE
    /\ IF menuOpen THEN UNCHANGED <<menuTimer, menuListeners>> ELSE MenuMountEffect
    /\ lastEvent' = Event("logsContextMenu", CursorCode(pos))
    /\ stepCmds' = <<>>
    /\ UNCHANGED <<logVars, nonLogVars>>

\* A click on the i-th entry of the panel's open menu.
LogMenuItemClick ==
  \E i \in 1..Len(menuItems) :
    /\ menuOpen
    /\ lastEvent' = Event("logsItemClick", i)
    /\ stepCmds' = BoundClickCalls(menuItems[i], i)
    /\ logCount' = IF \E k \in DOMAIN stepCmds' : stepCmds'[k] = ClearCall
                     THEN 0 ELSE logCount
    /\ IF stepCmds' # <<>> /\ stepCmds'[Len(stepCmds')] = OnCloseCall
         THEN Hide
         ELSE UNCHANGED menuVars
    /\ UNCHANGED nonLogVars

LogNext ==
  \/ LogAppend
  \/ LogHeaderToggle
  \/ LogHeaderCopy
  \/ LogHeaderClear
  \/ LogContextMenu
  \/ LogMenuItemClick
  \/ MenuTimerFire
  \/ MenuMouseDown
  \/ MenuKeyDown

InitLogs == SharedInit /\ ObOff /\ MenuInit /\ PosOff /\ DragOff /\ ItemOff /\ RowOff /\ ListOff /\ LogInit /\ MultiOff

SpecLogs == InitLogs /\ [][LogNext]_vars

\* ------------------------------------------------- TaskItem: the row, code
DefKinds == {NoTaskDef, NoOptionField} \cup (0..MaxOptions)
\* hasOptions = taskDef.option && taskDef.option.length > 0
HasOptions(def) == def # NoTaskDef /\ def # NoOptionField /\ def > 0

\* What a render of the row returns: the elements with a handler attached,
\* the option panel and the ContextMenu.  Nothing for an unresolved taskDef.
RowControlsRemoveWhileEditing(def, editing, expanded, open) ==
  IF def = NoTaskDef THEN {}
  ELSE {"row", "dragHandle", "checkbox", "removeButton"}
       \cup (IF editing THEN {"editInput", "confirm", "cancel"} ELSE {"nameArea"})
       \cup (IF HasOptions(def) /\ ~editing THEN {"expandButton"} ELSE {})
       \cup (IF HasOptions(def) /\ expanded THEN {"optionPanel"} ELSE {})
       \cup (IF open THEN {"menu"} ELSE {})
RowControlsPanelWhenExpanded(def, editing, expanded, open) ==
  IF def = NoTaskDef THEN {}
  ELSE {"row", "dragHandle", "checkbox"}
       \cup (IF editing THEN {"editInput", "confirm", "cancel"} ELSE {"nameArea"})
       \cup (IF HasOptions(def) /\ ~editing THEN {"expandButton"} ELSE {})
       \cup (IF ~editing THEN {"removeButton"} ELSE {})
       \cup (IF expanded THEN {"optionPanel"} ELSE {})
       \cup (IF open THEN {"menu"} ELSE {})
RowControls(def, editing, expanded, open) ==
  IF def = NoTaskDef THEN {}
  ELSE {"row", "dragHandle", "checkbox"}
       \cup (IF editing THEN {"editInput", "confirm", "cancel"} ELSE {"nameArea"})
       \cup (IF HasOptions(def) /\ ~editing THEN {"expandButton"} ELSE {})
       \cup (IF ~editing THEN {"removeButton"} ELSE {})
       \cup (IF HasOptions(def) /\ expanded THEN {"optionPanel"} ELSE {})
       \cup (IF open THEN {"menu"} ELSE {})

\* A render calls the hooks of lines 306-335 and returns at line 343 for an
\* unresolved taskDef; otherwise it goes on to useCallback at line 375.  React
\* throws when a render calls another number of hooks than the one before.
RenderOutcome(prev, def) ==
  LET now == IF def = NoTaskDef THEN "null" ELSE "full"
  IN IF prev = now THEN now ELSE "error"

RowCmd(op, inst, task) == Cmd(op, inst, task, 0, 0, <<>>)
\* onClick of the rename entry: setEditName(task.customName || ''), setIsEditing(true).
StartRenameCall(inst, task) == Cmd("rename.onClick", inst, task, 0, 0, <<>>)

\* handleContextMenu: the entries it passes to showMenu, for the props
\* instanceId and task.id and the task list of getActiveInstance().
RowMenuItemsLastAsFirst(instanceId, taskId, tasks, hasOptions) ==
  LET taskIndex == FindIndex(tasks, taskId)
      isFirst == taskIndex = 0
  IN << BoundItem("duplicate", FALSE, RowCmd("duplicateTask", instanceId, taskId)),
        BoundItem("rename", FALSE, StartRenameCall(instanceId, taskId)),
        BoundDivider("divider-1"),
        BoundItem("toggle", FALSE, RowCmd("toggleTaskEnabled", instanceId, taskId)) >>
     \o (IF hasOptions
           THEN <<BoundItem("expand", FALSE, RowCmd("toggleTaskExpanded", instanceId, taskId))>>
           ELSE <<>>)
     \o << BoundDivider("divider-2"),
           BoundItem("move-up", isFirst, RowCmd("moveTaskUp", instanceId, taskId)),
           BoundItem("move-down", isFirst, RowCmd("moveTaskDown", instanceId, taskId)),
           BoundItem("move-top", isFirst, RowCmd("moveTaskToTop", instanceId, taskId)),
           BoundItem("move-bottom", isFirst, RowCmd("moveTaskToBottom", instanceId, taskId)),
           BoundDivider("divider-3"),
           BoundItem("delete", FALSE, RowCmd("removeTaskFromInstance", instanceId, taskId)) >>
RowMenuItems(instanceId, taskId, tasks, hasOptions) ==
  LET taskIndex == FindIndex(tasks, taskId)
      isFirst == taskIndex = 0
      isLast == taskIndex = Len(tasks) - 1
  IN << BoundItem("duplicate", FALSE, RowCmd("duplicateTask", instanceId, taskId)),
        BoundItem("rename", FALSE, StartRenameCall(instanceId, taskId)),
        BoundDivider("divider-1"),
        BoundItem("toggle", FALSE, RowCmd("toggleTaskEnabled", instanceId, taskId)) >>
     \o (IF hasOptions
           THEN <<BoundItem("expand", FALSE, RowCmd("toggleTaskExpanded", instanceId, taskId))>>
           ELSE <<>>)
     \o << BoundDivider("divider-2"),
           BoundItem("move-up", isFirst, RowCmd("moveTaskUp", instanceId, taskId)),
           BoundItem("move-down", isLast, RowCmd("moveTaskDown", instanceId, taskId)),
           BoundItem("move-top", isFirst, RowCmd("moveTaskToTop", instanceId, taskId)),
           BoundItem("move-bottom", isLast, RowCmd("moveTaskToBottom", instanceId, taskId)),
           BoundDivider("divider-3"),
           BoundItem("delete", FALSE, RowCmd("removeTaskFromInstance", instanceId, taskId)) >>

\* The task lists of the row's instance: ids in ascending order (the ids carry
\* no meaning, only the row's place in the list does).
PrefixLists == {[i \in 1..n |-> i] : n \in 0..MaxTasks}

\* The row as TaskList mounts it: one of the tasks of the active instance.
RowInit ==
  /\ tlInstance \in InstanceIds
  /\ tlTasks \in PrefixLists
  /\ dragActive = NoTask
  /\ tiInstanceId = tlInstance
  /\ tiTaskId \in IdsOf(tlTasks)
  /\ tiCustomName = <<>>
  /\ tiEditing = FALSE
  /\ tiEditName = <<>>
  /\ tiNameAtStart = <<>>
  /\ tiDef \in DefKinds
  /\ tiExpanded \in BOOLEAN
  /\ tiRender = RenderOutcome(IF tiDef = NoTaskDef THEN "null" ELSE "full", tiDef)

\* ---------------------------------------------- TaskItem: the row, actions
nonRowVars == <<obVars, posVars, listVars, logVars, multiVars>>

\* The elements of the row that are on screen.
RowShown ==
  IF tiRender = "full" THEN RowControls(tiDef, tiEditing, tiExpanded, menuOpen) ELSE {}

\* onChange of the enable checkbox.
RowCheckboxChange ==
  /\ "checkbox" \in RowShown
  /\ lastEvent' = Event("checkboxChange", 0)
  /\ stepCmds' = <<RowCmd("toggleTaskEnabled", tiInstanceId, tiTaskId)>>
  /\ UNCHANGED <<menuVars, dragVars, itemVars, rowVars, nonRowVars>>

\* onClick of the expand/collapse button.
RowExpandClick ==
  /\ "expandButton" \in RowShown
  /\ lastEvent' = Event("expandClick", 0)
  /\ stepCmds' = <<RowCmd("toggleTaskExpanded", tiInstanceId, tiTaskId)>>
  /\ UNCHANGED <<menuVars, dragVars, itemVars, rowVars, nonRowVars>>

\* onClick of the remove button.
RowRemoveClick ==
  /\ "removeButton" \in RowShown
  /\ lastEvent' = Event("removeClick", 0)
  /\ stepCmds' = <<RowCmd("removeTaskFromInstance", tiInstanceId, tiTaskId)>>
  /\ UNCHANGED <<menuVars, dragVars, itemVars, rowVars, nonRowVars>>

\* The sortable listeners of the drag handle start a drag of the row.
RowDragStart ==
  /\ "dragHandle" \in RowShown
  /\ dragActive = NoTask
  /\ dragActive' = tiTaskId
  /\ lastEvent' = Event("rowDragStart", tiTaskId)
  /\ stepCmds' = <<>>
  /\ UNCHANGED <<tlInstance, tlTasks>>
  /\ UNCHANGED <<menuVars, itemVars, rowVars, nonRowVars>>

\* A contextmenu event on the row or inside it: handleContextMenu, then show.
RowContextMenu ==
  /\ "row" \in RowShown
  /\ IF tlInstance = NoInstance
       THEN UNCHANGED menuVars
       ELSE /\ menuItems' = RowMenuItems(tiInstanceId, tiTaskId, tlTasks, HasOptions(tiDef))
            /\ menuPos' = [x |-> 0, y |-> 0]
            /\ menuOpen' = TRUE
            /\ IF menuOpen THEN UNCHANGED <<menuTimer, menuListeners>> ELSE MenuMountEffect
  /\ lastEvent' = Event("rowContextMenu", 0)
  /\ stepCmds' = <<>>
  /\ UNCHANGED <<dragVars, itemVars, rowVars, nonRowVars>>

\* A click on the i-th entry of the row's open menu.  The rename entry starts
\* the edit as handleDoubleClick does.
RowMenuItemClick ==
  \E i \in 1..Len(menuItems) :
    /\ "menu" \in RowShown
    /\ lastEvent' = Event("rowItemClick", i)
    /\ stepCmds' = BoundClickCalls(menuItems[i], i)
    /\ IF \E k \in DOMAIN stepCmds' : stepCmds'[k].op = "rename.onClick"
         THEN /\ tiEditName' = tiCustomName
              /\ tiEditing' = TRUE
              /\ tiNameAtStart' = tiCustomName
              /\ UNCHANGED <<tiInstanceId, tiTaskId, tiCustomName>>
         ELSE UNCHANGED itemVars
    /\ IF stepCmds' # <<>> /\ stepCmds'[Len(stepCmds')] = OnCloseCall
         THEN Hide
         ELSE UNCHANGED menuVars
    /\ UNCHANGED <<dragVars, rowVars, nonRowVars>>

\* The store changes the task's expanded flag or the project interface (the
\* definition the task name resolves to); the row renders again.  When React
\* throws, the tree is torn down: local state, menu and drag are gone.
RowStoreChange ==
  /\ tiRender # "error"
  /\ \E def \in DefKinds, exp \in BOOLEAN :
       /\ (def = tiDef) # (exp = tiExpanded)
       /\ tiDef' = def
       /\ tiExpanded' = exp
       /\ tiRender' = RenderOutcome(tiRender, def)
  /\ IF tiRender' = "error"
       THEN /\ Hide
            /\ dragActive' = NoTask
            /\ tiEditing' = FALSE
            /\ tiEditName' = <<>>
       ELSE UNCHANGED <<menuVars, dragActive, tiEditing, tiEditName>>
  /\ lastEvent' = Event("rowStoreChange", 0)
  /\ stepCmds' = <<>>
  /\ UNCHANGED <<tlInstance, tlTasks, tiInstanceId, tiTaskId, tiCustomName, tiNameAtStart>>
  /\ UNCHANGED nonRowVars

\* The edit input's text is left as it is: typing is covered by SpecItem.
RowNext ==
  \/ RowCheckboxChange
  \/ RowExpandClick
  \/ RowRemoveClick
  \/ RowDragStart
  \/ RowContextMenu
  \/ RowMenuItemClick
  \/ RowStoreChange
  \/ TiDoubleClick
  \/ TiSave
  \/ TiCancel
  \/ TlDragEnd
  \/ TlDragCancel
  \/ MenuTimerFire
  \/ MenuMouseDown
  \/ MenuKeyDown

InitRow == SharedInit /\ ObOff /\ MenuInit /\ PosOff /\ RowInit /\ ListOff /\ LogOff /\ MultiOff

SpecRow == InitRow /\ [][RowNext]_vars

\* --------------------------------------------- TaskList: the list menu, code
\* tasks.some((t) => t.enabled), tasks.some((t) => t.expanded)
HasEnabledTasks(tasks, enabled) == \E i \in DOMAIN tasks : enabled[tasks[i]]
HasExpandedTasks(tasks, expanded) == \E i \in DOMAIN tasks : expanded[tasks[i]]

Flag(v) == IF v THEN 1 ELSE 0
SetShowAddTaskPanelCmd(v) == Cmd("setShowAddTaskPanel", NoInstance, NoTask, Flag(v), 0, <<>>)
SelectAllTasksCmd(inst, v) == Cmd("selectAllTasks", inst, NoTask, Flag(v), 0, <<>>)
CollapseAllTasksCmd(inst, w) == Cmd("collapseAllTasks", inst, NoTask, Flag(w), 0, <<>>)

\* handleListContextMenu: the entries it passes to showMenu.
ListMenuItemsSelectInverted(inst, tasks, enabled, expanded, showAdd) ==
  <<BoundItem("add", FALSE, SetShowAddTaskPanelCmd(~showAdd))>>
  \o (IF Len(tasks) > 0
        THEN << BoundDivider("divider-1"),
                BoundItem("select-all", FALSE,
                          SelectAllTasksCmd(inst, HasEnabledTasks(tasks, enabled))),
                BoundItem("collapse-all", FALSE,
                          CollapseAllTasksCmd(inst, ~HasExpandedTasks(tasks, expanded))) >>
        ELSE <<>>)
ListMenuItems(inst, tasks, enabled, expanded, showAdd) ==
  <<BoundItem("add", FALSE, SetShowAddTaskPanelCmd(~showAdd))>>
  \o (IF Len(tasks) > 0
        THEN << BoundDivider("divider-1"),
                BoundItem("select-all", FALSE,
                          SelectAllTasksCmd(inst, ~HasEnabledTasks(tasks, enabled))),
                BoundItem("collapse-all", FALSE,
                          CollapseAllTasksCmd(inst, ~HasExpandedTasks(tasks, expanded))) >>
        ELSE <<>>)

\* The render: without an instance a bare placeholder; with one (empty list or
\* not) an area with onContextMenu and, when the menu state is open, the menu.
ListAreaAlways(inst) == TRUE
ListArea(inst) == inst # NoInstance

\* The task lists of the list menu's store, with the flags of absent tasks false.
ListTaskLists == {[i \in 1..n |-> i] : n \in 0..MaxListTasks}
FlagsOf(tasks) == {f \in [TaskIds -> BOOLEAN] : \A id \in TaskIds : f[id] => id \in IdsOf(tasks)}

ListInit ==
  /\ tlInstance \in {NoInstance} \cup InstanceIds
  /\ tlTasks \in ListTaskLists
  /\ tlInstance = NoInstance => tlTasks = <<>>
  /\ dragActive = NoTask
  /\ taskEnabled \in FlagsOf(tlTasks)
  /\ taskExpanded \in FlagsOf(tlTasks)
  /\ showAddTaskPanel = FALSE

\* ------------------------------------------ TaskList: the list menu, actions
nonListVars == <<obVars, posVars, itemVars, rowVars, logVars, multiVars>>

ListMenuShown == ListArea(tlInstance) /\ menuOpen

\* A contextmenu event on the list area: handleListContextMenu, then show.
ListContextMenu ==
  /\ ListArea(tlInstance)
  /\ IF tlInstance = NoInstance
       THEN UNCHANGED menuVars
       ELSE /\ menuItems' = ListMenuItems(tlInstance, tlTasks, taskEnabled, taskExpanded,
                                          showAddTaskPanel)
            /\ menuPos' = [x |-> 0, y |-> 0]
            /\ menuOpen' = TRUE
            /\ IF menuOpen THEN UNCHANGED <<menuTimer, menuListeners>> ELSE MenuMountEffect
  /\ lastEvent' = Event("listContextMenu", 0)
  /\ stepCmds' = <<>>
  /\ UNCHANGED <<dragVars, listVars, nonListVars>>

\* A click on the i-th entry of the list's menu on screen.
ListMenuItemClick ==
  \E i \in 1..Len(menuItems) :
    /\ ListMenuShown
    /\ lastEvent' = Event("listItemClick", i)
    /\ stepCmds' = BoundClickCalls(menuItems[i], i)
    /\ IF stepCmds' # <<>> /\ stepCmds'[Len(stepCmds')] = OnCloseCall
         THEN Hide
         ELSE UNCHANGED menuVars
    /\ UNCHANGED <<dragVars, listVars, nonListVars>>

\* TaskList renders again after a store change: a ContextMenu that leaves the
\* screen runs its cleanup, one that comes (back) on screen its mount effect;
\* without a DndContext the drag is gone (drags are followed in SpecDrag).
ListRerender ==
  /\ dragActive' = IF DndRendered(tlInstance', tlTasks') THEN dragActive ELSE NoTask
  /\ IF ListMenuShown /\ ~ListArea(tlInstance')
       THEN MenuCleanup
       ELSE IF ~ListMenuShown /\ menuOpen /\ ListArea(tlInstance')
              THEN MenuMountEffect
              ELSE UNCHANGED <<menuTimer, menuListeners>>
  /\ UNCHANGED <<menuOpen, menuPos, menuItems>>

\* The store changes: another active instance or task list (arg 0), one
\* task's enabled (arg 1) or expanded (arg 2) flag, showAddTaskPanel (arg 3).
ListStoreChange ==
  /\ \/ \E inst \in {NoInstance} \cup InstanceIds, tasks \in ListTaskLists :
          /\ inst = NoInstance => tasks = <<>>
          /\ <<inst, tasks>> # <<tlInstance, tlTasks>>
          /\ tlInstance' = inst
          /\ tlTasks' = tasks
          /\ taskEnabled' = [id \in TaskIds |-> taskEnabled[id] /\ id \in IdsOf(tasks)]
          /\ taskExpanded' = [id \in TaskIds |-> taskExpanded[id] /\ id \in IdsOf(tasks)]
          /\ lastEvent' = Event("listStoreChange", 0)
          /\ UNCHANGED showAddTaskPanel
     \/ \E id \in IdsOf(tlTasks) :
          /\ taskEnabled' = [taskEnabled EXCEPT ![id] = ~@]
          /\ lastEvent' = Event("listStoreChange", 1)
          /\ UNCHANGED <<tlInstance, tlTasks, taskExpanded, showAddTaskPanel>>
     \/ \E id \in IdsOf(tlTasks) :
          /\ taskExpanded' = [taskExpanded EXCEPT ![id] = ~@]
          /\ lastEvent' = Event("listStoreChange", 2)
          /\ UNCHANGED <<tlInstance, tlTasks, taskEnabled, showAddTaskPanel>>
     \/ /\ showAddTaskPanel' = ~showAddTaskPanel
        /\ lastEvent' = Event("listStoreChange", 3)
        /\ UNCHANGED <<tlInstance, tlTasks, taskEnabled, taskExpanded>>
  /\ ListRerender
  /\ stepCmds' = <<>>
  /\ UNCHANGED nonListVars

ListNext ==
  \/ ListContextMenu
  \/ ListMenuItemClick
  \/ ListStoreChange
  \/ MenuTimerFire
  \/ MenuMouseDown
  \/ MenuKeyDown

InitList == SharedInit /\ ObOff /\ MenuInit /\ PosOff /\ ItemOff /\ RowOff /\ ListInit /\ LogOff /\ MultiOff

SpecList == InitList /\ [][ListNext]_vars

\* ----------------------- the menus of TaskList and its rows side by side
\* Each owner has its own useContextMenu state and renders its own
\* ContextMenu; the document listeners of every mounted menu see every event.
\* show: isOpen true; a ContextMenu that mounts sets its zero-delay timer.
ShowMenu(m) == IF m.open THEN m ELSE [open |-> TRUE, timer |-> TRUE, listeners |-> FALSE]
\* The timer callback adds the two listeners.
TimerRuns(m) == [m EXCEPT !.timer = FALSE, !.listeners = TRUE]
\* handleClickOutside for a pointer-down inside the menu's panel or not:
\* onClose, the menu unmounts and its cleanup runs.
PointerDownOn(m, inside) ==
  IF m.open /\ m.listeners /\ ClickOutsideCloses(inside) THEN NoMenu ELSE m
\* handleEscape.
KeyDownOn(m, key) ==
  IF m.open /\ m.listeners /\ EscapeCloses(key) THEN NoMenu ELSE m

nonMultiVars == <<obVars, menuVars, posVars, dragVars, itemVars, rowVars, listVars, logVars>>

\* A right-click on the area of owner o, outside every menu panel: the
\* pointer-down reaches the listeners on the document, then the contextmenu
\* event reaches o's handler (a row's handler stops the propagation), which
\* calls show.
MsRightClick ==
  \E o \in Owners :
    /\ ownerMenus' = [p \in Owners |->
                        IF p = o THEN ShowMenu(PointerDownOn(ownerMenus[p], FALSE))
                                 ELSE PointerDownOn(ownerMenus[p], FALSE)]
    /\ lastEvent' = Event("rightClick", o)
    /\ stepCmds' = <<>>
    /\ UNCHANGED nonMultiVars

\* The zero-delay timer of o's mounted menu runs.
MsTimerFire ==
  \E o \in Owners :
    /\ ownerMenus[o].timer
    /\ ownerMenus' = [ownerMenus EXCEPT ![o] = TimerRuns(@)]
    /\ lastEvent' = Event("ownerTimer", o)
    /\ stepCmds' = <<>>
    /\ UNCHANGED nonMultiVars

\* A pointer-down with another button, outside every panel (arg -1) or inside
\* the panel of o's menu on screen (arg o).
MsMouseDown ==
  \E t \in {-1} \cup {o \in Owners : ownerMenus[o].open} :
    /\ ownerMenus' = [p \in Owners |-> PointerDownOn(ownerMenus[p], p = t)]
    /\ lastEvent' = Event("ownerMouseDown", t)
    /\ stepCmds' = IF ownerMenus' # ownerMenus THEN <<OnCloseCall>> ELSE <<>>
    /\ UNCHANGED nonMultiVars

\* A key press (arg 1 for Escape, 0 for another key).
MsKeyDown ==
  \E key \in Keys :
    /\ ownerMenus' = [p \in Owners |-> KeyDownOn(ownerMenus[p], key)]
    /\ lastEvent' = Event("ownerKeyDown", IF key = "Escape" THEN 1 ELSE 0)
    /\ stepCmds' = IF ownerMenus' # ownerMenus THEN <<OnCloseCall>> ELSE <<>>
    /\ UNCHANGED nonMultiVars

MultiNext ==
  \/ MsRightClick
  \/ MsTimerFire
  \/ MsMouseDown
  \/ MsKeyDown

InitMulti == SharedInit /\ ObOff /\ MenuInit /\ PosOff /\ DragOff /\ ItemOff /\ RowOff /\ ListOff /\ LogOff /\ MultiOff

SpecMulti == InitMulti /\ [][MultiNext]_vars

\* --------------------------------------------------------------- claims

\* The overlay has been dismissed: not visible, completed flag set.
ObDismissed == ~obVisible /\ obCompleted

\* C1: with the completed flag initially false, the component staying mounted
\* and every set timer firing, the overlay becomes visible (the 500ms timer
\* fires), and once a dismissal has been triggered while visible -- by a click
\* on the backdrop or the acknowledgement button, or by the active instance
\* being Connected with its resources loaded -- it becomes dismissed: not
\* visible, with setOnboardingCompleted(true) issued.
C1_VisibleThenDismissed ==
  /\ (~obCompletedAtMount /\ obDisplayTimer) ~> obVisible
  /\ (obVisible /\ WatcherDismisses(obVisible, obCompleted, activeInstanceId,
                                     connStatus, resLoaded)) ~> ObDismissed
  /\ (obVisible /\ obExiting) ~> ObDismissed
  /\ [][obCompleted' # obCompleted => stepCmds' = <<SetOnboardingCompletedCmd>>]_vars
C1_Witness ==
  /\ ~obCompletedAtMount /\ obMounted /\ ObDismissed
  /\ lastEvent = Event("exitTimer", 0)
  /\ stepCmds = <<SetOnboardingCompletedCmd>>

\* C2: when onboardingCompleted is true at mount, the overlay is never visible,
\* no display timer is pending and no dismissal is triggered (isExiting stays
\* false, no exit timer is set), whatever the store does to the connection
\* status, the resource-loaded flag and the active instance.
C2_CompletedNeverVisible ==
  obCompletedAtMount =>
    /\ ~obVisible /\ ~obDisplayTimer
    /\ ~obExiting /\ obExitTimers = 0
    /\ lastEvent.name \notin {"displayTimer", "dismissClick", "exitTimer"}
C2_Witness ==
  /\ obCompletedAtMount /\ obMounted
  /\ lastEvent.name = "storeChange"
  /\ activeInstanceId # NoInstance
  /\ connStatus[activeInstanceId] = "Connected"
  /\ resLoaded[activeInstanceId]

\* C8: once the component has unmounted, neither the 500ms timer nor a 200ms
\* timer fires, so no visibility update happens and setOnboardingCompleted is
\* not called.
C8_NoTimerAfterUnmount ==
  ~obMounted =>
    /\ lastEvent.name \notin {"displayTimer", "exitTimer"}
    /\ stepCmds = <<>>

\* An entry whose click runs the action: not a divider, not disabled, no
\* children field.
Activatable(item) == ~item.divider /\ ~item.disabled /\ item.children = "none"

\* C3: a click on a disabled entry, or on an entry that has a children field,
\* makes no call at all (the action is not invoked, onClose is not called) and
\* the menu stays open; a click on a non-divider, non-disabled entry without
\* children calls the entry's onClick once and then onClose, in that order,
\* and the menu is closed.
C3_ItemClick ==
  lastEvent.name = "itemClick" =>
    LET i == lastEvent.arg
        it == menuItems[i]
    IN /\ (it.disabled \/ it.children # "none") => (stepCmds = <<>> /\ menuOpen)
       /\ (Activatable(it) /\ it.onClick) =>
             (stepCmds = <<OnClickCall(i), OnCloseCall>> /\ ~menuOpen)
       /\ (Activatable(it) /\ ~it.onClick) => (stepCmds = <<OnCloseCall>> /\ ~menuOpen)
C3_Witness ==
  /\ lastEvent.name = "itemClick"
  /\ Activatable(menuItems[lastEvent.arg])
  /\ stepCmds = <<OnClickCall(lastEvent.arg), OnCloseCall>>
  /\ ~menuOpen

\* C9: with the document listeners registered, an open menu is closed by a
\* mousedown outside the panel, by an Escape keydown and by a click on an
\* activatable entry; a mousedown inside the panel and a keydown of another
\* key leave it open.
C9_Dismissal ==
  [][(menuOpen /\ menuListeners) =>
       /\ lastEvent' = Event("mousedown", 0) => ~menuOpen'
       /\ lastEvent' = Event("keydown", 1) => ~menuOpen'
       /\ (lastEvent'.name = "itemClick" /\ Activatable(menuItems[lastEvent'.arg]))
             => ~menuOpen'
       /\ lastEvent' = Event("mousedown", 1) => menuOpen'
       /\ lastEvent' = Event("keydown", 0) => menuOpen']_vars
C9_Witness ==
  /\ lastEvent = Event("mousedown", 0)
  /\ stepCmds = <<OnCloseCall>>
  /\ ~menuOpen /\ ~menuListeners

\* C10: the listeners are registered by the zero-delay timer step and by
\* nothing else; the contextmenu event that opens a menu leaves it open with
\* the timer pending and no listener registered; while the timer is pending a
\* mousedown (inside or outside) or a keydown (Escape or not) changes nothing
\* of the menu and calls nothing.
C10_DeferredListeners ==
  [][/\ (menuListeners' /\ ~menuListeners) => lastEvent'.name = "menuTimer"
     /\ lastEvent'.name = "contextmenu" =>
          (menuOpen' /\ (~menuOpen => (menuTimer' /\ ~menuListeners')))
     /\ (menuOpen /\ menuTimer /\ lastEvent'.name \in {"mousedown", "keydown"}) =>
          (UNCHANGED menuVars /\ stepCmds' = <<>>)]_vars
C10_Witness ==
  /\ menuOpen /\ menuTimer /\ ~menuListeners
  /\ lastEvent \in {Event("mousedown", 0), Event("keydown", 1)}

\* The measured panel leaves room for both margins.
PanelFits == rectW <= winW - 2 * Margin /\ rectH <= winH - 2 * Margin

\* C4 as stated: for every anchor, panel size and viewport, the final box lies
\* inside [Margin, winW - Margin] x [Margin, winH - Margin].
C4_BoxInsideMargins ==
  posShown =>
    /\ Margin <= styleLeft /\ styleLeft + rectW <= winW - Margin
    /\ Margin <= styleTop /\ styleTop + rectH <= winH - Margin

\* C4 amended: for a panel that leaves room for both margins, the final box
\* starts at Margin or more and ends inside the viewport on both axes; on an
\* axis it ends at winW - Margin (winH - Margin) or less unless the requested
\* box ended in the last Margin units before the viewport edge without
\* crossing it.
C4_BoxInsideViewport ==
  (posShown /\ PanelFits) =>
    /\ Margin <= styleLeft /\ styleLeft + rectW <= winW
    /\ Margin <= styleTop /\ styleTop + rectH <= winH
    /\ (posReq.x + rectW <= winW - Margin \/ posReq.x + rectW > winW)
         => styleLeft + rectW <= winW - Margin
    /\ (posReq.y + rectH <= winH - Margin \/ posReq.y + rectH > winH)
         => styleTop + rectH <= winH - Margin
C4_Witness ==
  /\ posShown /\ PanelFits
  /\ posReq.x + rectW > winW /\ styleLeft + rectW = winW - Margin
  /\ posReq.y + rectH > winH /\ styleTop + rectH = winH - Margin

\* C5: when the drag ends with the dragged task at (0-based) index i and the
\* drop target at index j of the task list, i # j, the handler issues exactly
\* one command, reorderTasks(instance id, i, j); when the drop target is the
\* dragged task itself, or there is no drop target, it issues no command.
C5_DragEnd ==
  [][lastEvent'.name = "dragEnd" =>
       /\ \A i, j \in DOMAIN tlTasks :
            (tlTasks[i] = dragActive /\ tlTasks[j] = lastEvent'.arg /\ i # j)
              => stepCmds' = <<ReorderCmd(tlInstance, i - 1, j - 1)>>
       /\ (lastEvent'.arg = NoTask \/ lastEvent'.arg = dragActive)
            => stepCmds' = <<>>]_vars
C5_Witness ==
  /\ lastEvent.name = "dragEnd"
  /\ Len(stepCmds) = 1
  /\ stepCmds[1].op = "reorderTasks"
  /\ stepCmds[1].a = 2 /\ stepCmds[1].b = 0
  /\ tlTasks[3] = 1 /\ lastEvent.arg = tlTasks[1]

\* n is s without its leading and trailing white space.
IsTrimmed(n, s) ==
  \E i, j \in 0..Len(s) :
    /\ i + j <= Len(s)
    /\ \A k \in 1..i : s[k] \in WhiteSpace
    /\ \A k \in (Len(s) - j + 1)..Len(s) : s[k] \in WhiteSpace
    /\ n = SubSeq(s, i + 1, Len(s) - j)
    /\ n = <<>> \/ (n[1] \notin WhiteSpace /\ n[Len(n)] \notin WhiteSpace)

\* C6: in editing state, Enter, loss of focus and the confirm control each
\* issue exactly renameTask(instance id, task id, name), where name is the edit
\* buffer without its leading and trailing white space (the empty name for a
\* buffer of white space only), and return the row to viewing.
C6_RenameCommit ==
  [][lastEvent' \in {Event("editKeyDown", 1), Event("editBlur", 0),
                     Event("confirmMouseDown", 0)} =>
       /\ tiEditing /\ ~tiEditing'
       /\ Len(stepCmds') = 1
       /\ stepCmds'[1].op = "renameTask"
       /\ stepCmds'[1].inst = tiInstanceId
       /\ stepCmds'[1].task = tiTaskId
       /\ IsTrimmed(stepCmds'[1].s, tiEditName)
       /\ (\A k \in DOMAIN tiEditName : tiEditName[k] \in WhiteSpace)
            => stepCmds'[1].s = <<>>]_vars
C6_Witness ==
  /\ lastEvent = Event("editBlur", 0)
  /\ ~tiEditing
  /\ tiEditName = <<" ", "\t">>
  /\ stepCmds = <<RenameCmd(tiInstanceId, tiTaskId, <<>>)>>
  /\ tiNameAtStart = <<"a">>

\* C7: in editing state, Escape and the cancel control return the row to
\* viewing and issue no command; the task's custom name is what it was when
\* editing started, whatever the edit buffer holds.
C7_RenameCancel ==
  [][lastEvent' \in {Event("editKeyDown", 2), Event("cancelMouseDown", 0)} =>
       /\ tiEditing /\ ~tiEditing'
       /\ stepCmds' = <<>>
       /\ tiCustomName' = tiCustomName
       /\ tiCustomName' = tiNameAtStart]_vars
C7_Witness ==
  /\ lastEvent = Event("editKeyDown", 2)
  /\ ~tiEditing
  /\ stepCmds = <<>>
  /\ tiCustomName = <<"a">>
  /\ tiNameAtStart = <<"a">>

\* C18: every dismissal trigger (a click on the backdrop or the button, a run
\* of the watcher effect that finds the instance connected and loaded) adds
\* one exit timer and removes none, so later triggers do not postpone the
\* timer of the first; every exit timer that fires leaves the overlay not
\* visible with the completed flag true, whatever the number of triggers; and
\* from a dismissed state no step makes the overlay visible again.
C18_DismissIdempotent ==
  [][/\ (lastEvent'.name = "dismissClick" \/ (obExiting' /\ ~obExiting))
          => obExitTimers' = obExitTimers + 1
     /\ obExitTimers' < obExitTimers
          => (lastEvent'.name = "exitTimer" /\ obExitTimers' = obExitTimers - 1)
     /\ lastEvent'.name = "exitTimer" => (~obVisible' /\ obCompleted')
     /\ ObDismissed => (~obVisible' /\ obCompleted')]_vars
C18_Witness ==
  /\ obMounted /\ ObDismissed /\ ~obCompletedAtMount
  /\ obExitTimers = MaxExitTimers - 1
  /\ lastEvent.name = "exitTimer"

\* C19: for a panel that leaves room for both margins, whatever the anchor,
\* the final position has 8 <= left, left + width <= viewport width, 8 <= top
\* and top + height <= viewport height.
C19_StaysInViewport ==
  (posShown /\ rectW <= winW - 16 /\ rectH <= winH - 16) =>
    /\ 8 <= styleLeft /\ styleLeft + rectW <= winW
    /\ 8 <= styleTop /\ styleTop + rectH <= winH
C19_Witness ==
  /\ posShown /\ rectW <= winW - 16 /\ rectH <= winH - 16
  /\ posReq.x + rectW > winW /\ styleLeft # posReq.x
  /\ posReq.y + rectH = winH /\ styleTop = posReq.y

\* C20: on a mounted overlay, a step of the display timer or of a store change
\* triggers the dismissal (adds an exit timer, sets isExiting) exactly when,
\* after the step, the overlay is visible, the completed flag is false, there
\* is an active instance, its connection status is Connected and its
\* resource-loaded flag is true; the status and flag of another instance, one
\* of the two alone, or no active instance never trigger it.
C20_AutoDismiss ==
  [][(obMounted /\ lastEvent'.name \in {"displayTimer", "storeChange"}) =>
       ((obExitTimers' = obExitTimers + 1 /\ obExiting')
          <=> (/\ obVisible' /\ ~obCompleted'
               /\ activeInstanceId' \in InstanceIds
               /\ connStatus'[activeInstanceId'] = "Connected"
               /\ resLoaded'[activeInstanceId'] = TRUE))
       /\ (obExitTimers' # obExitTimers + 1 => UNCHANGED <<obExiting, obExitTimers>>)]_vars
C20_Witness ==
  /\ obMounted /\ obVisible /\ obExiting /\ obExitTimers = 1
  /\ lastEvent = Event("displayTimer", 0)
  /\ activeInstanceId \in InstanceIds
  /\ connStatus[activeInstanceId] = "Connected" /\ resLoaded[activeInstanceId]
  /\ \E i \in InstanceIds : i # activeInstanceId /\ connStatus[i] # "Connected"

\* C13 as stated: at every moment the copy-all and clear header buttons, and
\* the copy and clear entries of an open menu, are disabled exactly when the
\* log list is empty.
C13_DisabledIffEmpty ==
  /\ ({"copy", "clear"} \cap LogHeaderControls(logCount) = {}) <=> (logCount = 0)
  /\ menuOpen =>
       \A i \in DOMAIN menuItems :
         menuItems[i].id \in {"copy", "clear"} => (menuItems[i].disabled <=> logCount = 0)
\* C13: at every moment the copy-all and clear header buttons are disabled
\* exactly when the log list is empty, and a click on either happens only
\* with a non-empty list; the copy and clear entries of the menu are disabled
\* exactly when the log list was empty at the contextmenu event that built
\* the menu, and an open menu keeps them as built.
C13_DisabledAsBuilt ==
  /\ [](({"copy", "clear"} \cap LogHeaderControls(logCount) = {}) <=> (logCount = 0))
  /\ [](({"copy", "clear"} \subseteq LogHeaderControls(logCount)) <=> (logCount >= 1))
  /\ [][/\ lastEvent'.name \in {"headerCopy", "headerClear"} => logCount >= 1
        /\ lastEvent'.name = "logsContextMenu" =>
             /\ menuOpen'
             /\ EntryIds(menuItems') = <<"copy", "clear", "divider-1", "toggle-panel">>
             /\ \A i \in 1..2 : menuItems'[i].disabled <=> (logCount' = 0)
        /\ (menuOpen /\ menuOpen' /\ lastEvent'.name # "logsContextMenu")
             => menuItems' = menuItems]_vars
C13_Witness ==
  /\ menuOpen /\ lastEvent.name = "logAppend" /\ logCount = 1
  /\ menuItems[1].disabled /\ menuItems[2].disabled
  /\ {"copy", "clear"} \subseteq LogHeaderControls(logCount)

\* C11 as stated: while the row is editing, the enable checkbox, the
\* expand/collapse button, the remove button, the drag handle and the row's
\* contextmenu handler are all off, and none of their events happens.
C11_OnlyConfirmCancel ==
  tiEditing =>
    /\ RowShown \cap {"checkbox", "expandButton", "removeButton", "dragHandle", "row"} = {}
    /\ lastEvent.name \notin {"checkboxChange", "expandClick", "removeClick",
                               "rowDragStart", "rowContextMenu"}
\* C11: while the row is editing, it shows the edit input with the confirm and
\* cancel controls in place of the name area, the expand/collapse button and
\* the remove button are not rendered and their clicks do not happen; the
\* enable checkbox, the drag handle and the row's contextmenu handler stay.
C11_EditingHidesExpandRemove ==
  tiEditing =>
    /\ RowShown \cap {"expandButton", "removeButton", "nameArea"} = {}
    /\ {"editInput", "confirm", "cancel"} \subseteq RowShown
    /\ {"checkbox", "dragHandle", "row"} \subseteq RowShown
    /\ lastEvent.name \notin {"expandClick", "removeClick"}
C11_Witness ==
  /\ tiEditing /\ tiDef >= 1
  /\ lastEvent.name = "checkboxChange"
  /\ stepCmds = <<RowCmd("toggleTaskEnabled", tiInstanceId, tiTaskId)>>

C14_UnresolvedRowInert ==
  /\ tiRender # "error"
  /\ tiDef = NoTaskDef => (RowShown = {} /\ stepCmds = <<>>)

\* The store command behind each entry of the row's menu.
C15_CommandOf(id) ==
  CASE id = "duplicate" -> "duplicateTask"
    [] id = "rename" -> "rename.onClick"
    [] id = "toggle" -> "toggleTaskEnabled"
    [] id = "expand" -> "toggleTaskExpanded"
    [] id = "move-up" -> "moveTaskUp"
    [] id = "move-down" -> "moveTaskDown"
    [] id = "move-top" -> "moveTaskToTop"
    [] id = "move-bottom" -> "moveTaskToBottom"
    [] id = "delete" -> "removeTaskFromInstance"
    [] OTHER -> "none"
\* C15: in the menu built by a contextmenu event on the row, move-up and
\* move-top are disabled exactly when the row's task is the first of the
\* active instance's list, move-down and move-bottom exactly when it is the
\* last, and no other entry is disabled; a click on an enabled entry issues
\* that entry's command for the row's instance id and task id and closes the
\* menu; a click on a disabled entry or a divider issues nothing.
C15_MoveEntries ==
  [][/\ lastEvent'.name = "rowContextMenu" =>
          /\ menuOpen'
          /\ {"move-up", "move-down", "move-top", "move-bottom"}
                \subseteq {menuItems'[k].id : k \in DOMAIN menuItems'}
          /\ \A k \in DOMAIN menuItems' :
                menuItems'[k].disabled <=>
                  \/ /\ menuItems'[k].id \in {"move-up", "move-top"}
                     /\ tlTasks[1] = tiTaskId
                  \/ /\ menuItems'[k].id \in {"move-down", "move-bottom"}
                     /\ tlTasks[Len(tlTasks)] = tiTaskId
     /\ lastEvent'.name = "rowItemClick" =>
          LET item == menuItems[lastEvent'.arg]
          IN IF item.divider \/ item.disabled
               THEN stepCmds' = <<>> /\ menuOpen'
               ELSE /\ stepCmds' = <<Cmd(C15_CommandOf(item.id), tiInstanceId, tiTaskId, 0, 0, <<>>),
                                      OnCloseCall>>
                    /\ ~menuOpen']_vars
C15_Witness ==
  /\ lastEvent.name = "rowItemClick"
  /\ Len(tlTasks) >= 2 /\ tlTasks[1] = tiTaskId
  /\ menuItems[lastEvent.arg].id = "move-down"
  /\ stepCmds = <<RowCmd("moveTaskDown", tiInstanceId, tiTaskId), OnCloseCall>>

\* C16: the menu built by a contextmenu event on the list area has the add
\* entry first, followed by a divider, the select-all and the collapse-all
\* entries exactly when the list holds at least one task, none disabled; the
\* select-all entry carries selectAllTasks(instance, v) with v true exactly
\* when no task is enabled at that event, the collapse-all entry
\* collapseAllTasks(instance, w) with w true exactly when no task is expanded
\* at that event; a click on an entry issues what the entry carries, whatever
\* the store has become since, and closes the menu.
C16_ListMenu ==
  [][/\ lastEvent'.name = "listContextMenu" =>
          /\ menuOpen'
          /\ EntryIds(menuItems') =
                IF Len(tlTasks) >= 1
                  THEN <<"add", "divider-1", "select-all", "collapse-all">>
                  ELSE <<"add">>
          /\ \A k \in DOMAIN menuItems' :
                /\ ~menuItems'[k].disabled
                /\ menuItems'[k].id = "add" => menuItems'[k].call.op = "setShowAddTaskPanel"
                /\ menuItems'[k].id = "select-all" =>
                     menuItems'[k].call =
                       Cmd("selectAllTasks", tlInstance, NoTask,
                           IF \A i \in DOMAIN tlTasks : ~taskEnabled[tlTasks[i]] THEN 1 ELSE 0,
                           0, <<>>)
                /\ menuItems'[k].id = "collapse-all" =>
                     menuItems'[k].call =
                       Cmd("collapseAllTasks", tlInstance, NoTask,
                           IF \A i \in DOMAIN tlTasks : ~taskExpanded[tlTasks[i]] THEN 1 ELSE 0,
                           0, <<>>)
     /\ (lastEvent'.name = "listItemClick" /\ ~menuItems[lastEvent'.arg].divider) =>
          /\ stepCmds' = <<menuItems[lastEvent'.arg].call, OnCloseCall>>
          /\ ~menuOpen']_vars
C16_Witness ==
  /\ lastEvent.name = "listItemClick"
  /\ tlInstance # NoInstance
  /\ stepCmds = <<SelectAllTasksCmd(tlInstance, TRUE), OnCloseCall>>
  /\ Len(tlTasks) = 2 /\ taskEnabled[tlTasks[2]] /\ ~taskEnabled[tlTasks[1]]

\* C17: without an active instance the list's menu is not on screen (its
\* timer and listeners are released too), no contextmenu event and no entry
\* click is handled, no menu opens and no step issues a command; with an
\* instance whose list is empty, a contextmenu event opens the menu with the
\* add entry alone.
C17_PlaceholderStates ==
  /\ [](tlInstance = NoInstance => (~ListMenuShown /\ ~menuTimer /\ ~menuListeners))
  /\ [][/\ tlInstance = NoInstance =>
             /\ stepCmds' = <<>>
             /\ lastEvent'.name \notin {"listContextMenu", "listItemClick"}
             /\ menuOpen' => menuOpen
        /\ (lastEvent'.name = "listContextMenu" /\ tlTasks = <<>>) =>
             /\ menuOpen' /\ ListArea(tlInstance')
             /\ EntryIds(menuItems') = <<"add">>]_vars
C17_Witness ==
  /\ tlInstance = NoInstance /\ menuOpen
  /\ EntryIds(menuItems) = <<"add">>
  /\ lastEvent = Event("listStoreChange", 0)

\* C21: setOnboardingCompleted(true) is called, and the completed flag
\* changes, only in the step of an exit timer firing; an exit timer is set only
\* in a step after which the overlay is visible, so while the 500ms display
\* timer is pending no exit timer is pending and the flag is still false,
\* whatever the store does to the connection in the meantime.
C21_NeverCompletesEarly ==
  /\ [](obDisplayTimer => (obExitTimers = 0 /\ ~obCompleted /\ ~obVisible))
  /\ [][/\ (\E k \in DOMAIN stepCmds' : stepCmds'[k] = SetOnboardingCompletedCmd)
             => lastEvent'.name = "exitTimer"
        /\ obCompleted' # obCompleted => lastEvent'.name = "exitTimer"
        /\ obExitTimers' > obExitTimers => (obMounted /\ obVisible')]_vars
C21_Witness ==
  /\ obMounted /\ obDisplayTimer /\ ~obVisible /\ ~obCompleted
  /\ lastEvent = Event("storeChange", 2)
  /\ activeInstanceId \in InstanceIds
  /\ connStatus[activeInstanceId] = "Connected" /\ resLoaded[activeInstanceId]
  /\ obExitTimers = 0 /\ ~obExiting

\* C22: a contextmenu event on the log area leaves the menu state open, with
\* the event's cursor position and the item list built for that event, also
\* when the menu was open already; a step that closes the menu is a
\* dismissal (mousedown, keydown, entry click) and leaves position and items
\* as they were; no other step -- an entry arriving, a header button, the
\* zero-delay timer -- changes the open flag, the position or the items.
C22_MenuStateTransitions ==
  [][/\ lastEvent'.name = "logsContextMenu" =>
          /\ menuOpen'
          /\ menuPos' \in ClickPositions /\ CursorCode(menuPos') = lastEvent'.arg
          /\ menuItems' = LogMenuItems(logCount)
     /\ lastEvent'.name # "logsContextMenu" =>
          /\ menuPos' = menuPos /\ menuItems' = menuItems
          /\ menuOpen' => menuOpen
     /\ (menuOpen /\ ~menuOpen') =>
          lastEvent'.name \in {"mousedown", "keydown", "logsItemClick"}
     /\ lastEvent'.name \in {"logAppend", "headerToggle", "headerCopy", "headerClear",
                               "menuTimer"}
          => UNCHANGED <<menuOpen, menuPos, menuItems>>]_vars
C22_Witness ==
  /\ menuOpen /\ menuListeners
  /\ lastEvent.name = "logsContextMenu" /\ lastEvent.arg = CursorCode(menuPos)
  /\ menuPos.x = MaxClick /\ logCount = 1
  /\ ~menuItems[1].disabled

\* C23: whenever the list's ContextMenu is not mounted -- after a dismissal,
\* or because TaskList stopped rendering it -- its zero-delay timer is not
\* pending and its two listeners are not on the document; a menu that
\* unmounts with the timer still pending has the timer cancelled, the timer
\* callback runs only for a mounted menu, and a mousedown or keydown while
\* the menu is unmounted calls nothing and leaves the menu state as it is.
C23_ReleasedOnUnmount ==
  /\ [](~ListMenuShown => (~menuTimer /\ ~menuListeners))
  /\ [][/\ (ListMenuShown /\ menuTimer /\ ~ListMenuShown')
             => (~menuTimer' /\ ~menuListeners')
        /\ lastEvent'.name = "menuTimer" => (ListMenuShown /\ ListMenuShown')
        /\ (~ListMenuShown /\ lastEvent'.name \in {"mousedown", "keydown"})
             => (stepCmds' = <<>> /\ UNCHANGED menuVars)]_vars
C23_Witness ==
  /\ tlInstance = NoInstance /\ menuOpen /\ ~menuTimer /\ ~menuListeners
  /\ lastEvent = Event("mousedown", 0)
  /\ stepCmds = <<>>

\* C26 as stated: once the active instance is gone, the list menu's open flag
\* is false.
C26_ClosedWithoutInstance ==
  tlInstance = NoInstance => ~menuOpen

\* C25 as stated: every reorderTasks command carries two different indices of
\* the instance's task list as it is at the drop.
C25_ValidIndices ==
  \A k \in DOMAIN stepCmds :
    stepCmds[k].op = "reorderTasks" =>
      /\ stepCmds[k].a \in 0..(Len(tlTasks) - 1)
      /\ stepCmds[k].b \in 0..(Len(tlTasks) - 1)
      /\ stepCmds[k].a # stepCmds[k].b

\* C24 as stated: at any time at most one of the menus of TaskList and its
\* rows is open.
C24_AtMostOneMenu ==
  Cardinality({o \in Owners : ownerMenus[o].open}) <= 1

====
